---- MODULE Spec2Model ----
(***************************************************************************)
(* Model of go/vt/topotools/vschema_ddl.go: ApplyVSchemaDDL applies one    *)
(* parsed VSchema DDL statement to the vschema of one keyspace.            *)
(*                                                                         *)
(* A caller that holds a usable topology server calls ApplyVSchemaDDL: the *)
(* snapshot is fetched (an empty one is made on NoNode) and the action's   *)
(* branch of the switch runs on it.  The caller then writes a successful   *)
(* result back to the topology server, or drops a failed one.              *)
(*                                                                         *)
(* Go values are represented as follows.                                   *)
(*   map[string]*T        a function whose DOMAIN is the set of keys       *)
(*   map[string]string    [isNil, kv]: kv a set of <<key, value>> pairs,   *)
(*                        isNil tells a nil map from an empty one, which   *)
(*                        reflect.DeepEqual distinguishes                  *)
(*   []*ColumnVindex      a sequence                                       *)
(*   *AutoIncrement       [isNil, Column, Sequence]                        *)
(*   error                a string, "" for nil; the message without its    *)
(*                        arguments                                        *)
(* The fields of a record are written in the same order wherever the       *)
(* record is built, the order of their first use in this module.           *)
(***************************************************************************)
EXTENDS Integers, Sequences, FiniteSets, TLC

VARIABLES
    topo,   \* the topology server's record for the keyspace
    ksvs,   \* the in-memory snapshot as the call left it
    err,    \* the error the call returned
    ddl,    \* the statement the call was given
    pc,     \* "idle", or "returned" while a caller holds the result of a call
    callers,    \* two callers of one keyspace: what each holds and where it is
    serialized  \* whether the two callers serialize their applications

vars == <<topo, ksvs, err, ddl, pc, callers, serialized>>

----------------------------------------------------------------------------
(* Go values *)

Nil == ""

NilParams == [isNil |-> TRUE, kv |-> {}]
NilAutoIncrement == [isNil |-> TRUE, Column |-> "", Sequence |-> ""]
NoVindexSpec == [Name |-> "", Type |-> "", Params |-> <<>>, Owner |-> ""]
NoAutoIncSpec == [Column |-> "", Sequence |-> ""]

\* &vschemapb.Table{Type: type}
NewTable(type) ==
    [Type |-> type, ColumnVindexes |-> <<>>, AutoIncrement |-> NilAutoIncrement]

\* a sqlparser.AlterVschema
Stmt(action, table, spec, cols, autoinc) ==
    [Action |-> action, Table |-> table, VindexSpec |-> spec,
     VindexCols |-> cols, AutoIncSpec |-> autoinc]

NoStmt == Stmt("", "", NoVindexSpec, <<>>, NoAutoIncSpec)

\* &vschemapb.Keyspace{} with the two maps made (lines 41-56)
EmptyKeyspace ==
    [Sharded |-> FALSE, Tables |-> [t \in {} |-> 0], Vindexes |-> [v \in {} |-> 0]]

\* m[k] = v
MapSet(m, k, v) == [x \in (DOMAIN m) \cup {k} |-> IF x = k THEN v ELSE m[x]]

\* delete(m, k)
MapDelete(m, k) == [x \in (DOMAIN m) \ {k} |-> m[x]]

\* len(m) of a map[string]string
ParamsLen(p) == Cardinality(p.kv)

\* reflect.DeepEqual on two map[string]string: a nil map never equals a
\* non-nil one
DeepEqual(p, q) == p.isNil = q.isNil /\ p.kv = q.kv

\* removal of s[i] by moving the last entry into its place
RemoveAtSwap(s, i) ==
    [j \in 1..(Len(s) - 1) |-> IF j = i THEN s[Len(s)] ELSE s[j]]

\* append(s[:i], s[i+1:]...)
RemoveAt(s, i) == SubSeq(s, 1, i - 1) \o SubSeq(s, i + 1, Len(s))

\* the position of the first entry of a []*ColumnVindex named name, 0 if none
FirstNamed(cvs, name) ==
    IF \E i \in 1..Len(cvs) : cvs[i].Name = name
    THEN CHOOSE i \in 1..Len(cvs) :
            /\ cvs[i].Name = name
            /\ \A j \in 1..(i - 1) : cvs[j].Name # name
    ELSE 0

Ret(e, k) == [ksvs |-> k, err |-> e]

----------------------------------------------------------------------------
(* Bounds and input domains *)

\* number of results the caller may write back to the topology server
MaxVersion == 4

VindexNames == {"v1", "v2"}
TableNames == {"t1", "t2"}
VindexTypes == {"hash", "lookup"}
Owners == {"", "t1"}
\* raw "key=value" parameter strings, as sequences of characters
RawParamLists ==
    { <<>>,
      << <<"k", "=", "a">> >>,
      << <<"k", "=", "b">> >> }
ColumnLists == { <<"c1">>, <<"c2", "c1">> }
AutoIncSpecs ==
    { [Column |-> "id", Sequence |-> "seq"],
      [Column |-> "uid", Sequence |-> "ks.seq"] }

----------------------------------------------------------------------------
(* sqlparser.VindexSpec.ParseParams *)

\* the position of the first "=" of a raw parameter, 0 if none
FirstEq(raw) ==
    IF \E i \in 1..Len(raw) : raw[i] = "="
    THEN CHOOSE i \in 1..Len(raw) :
            /\ raw[i] = "="
            /\ \A j \in 1..(i - 1) : raw[j] # "="
    ELSE 0

ParamKey(raw) ==
    IF FirstEq(raw) = 0 THEN raw ELSE SubSeq(raw, 1, FirstEq(raw) - 1)

ParamVal(raw) ==
    IF FirstEq(raw) = 0 THEN <<>> ELSE SubSeq(raw, FirstEq(raw) + 1, Len(raw))

\* the map built from the raw parameters; a later entry replaces an earlier
\* one of the same key
RECURSIVE ParamsOf(_)
ParamsOf(raws) ==
    IF raws = <<>> THEN {}
    ELSE LET last == raws[Len(raws)]
             rest == ParamsOf(SubSeq(raws, 1, Len(raws) - 1))
         IN { kv \in rest : kv[1] # ParamKey(last) }
                \cup { <<ParamKey(last), ParamVal(last)>> }

\* owner, params := spec.ParseParams(): the map is made, never nil
ParseParams(spec) ==
    [owner |-> spec.Owner, params |-> [isNil |-> FALSE, kv |-> ParamsOf(spec.Params)]]

----------------------------------------------------------------------------
(* The error messages of ApplyVSchemaDDL *)

ErrVindexExists == "vindex already exists in keyspace"
ErrVindexNotExists == "vindex does not exists in keyspace"
ErrStillDefined == "can not drop vindex cause still defined on table"
ErrAddTableSharded == "add vschema table: unsupported on sharded keyspace"
ErrTableExists == "vschema already contains table"
ErrNoTable == "vschema does not contain table"
ErrVindexType == "vindex defined with type"
ErrVindexOwner == "vindex defined with owner"
ErrVindexParams == "vindex defined with different parameters"
ErrVindexNotExist == "vindex does not exist in keyspace"
ErrAlreadyOnTable == "vindex already defined on table"
ErrTableNotDefined == "table not defined in vschema"
ErrNotOnTable == "vindex not defined in table"
ErrAddSeqSharded == "add sequence table: unsupported on sharded keyspace"
ErrSeqExists == "vschema already contains sequence"
ErrDropSeqSharded == "drop sequence table: unsupported on sharded keyspace"
ErrNoSeq == "vschema does not contain sequence"
ErrAutoIncExists == "vschema already contains auto inc"
ErrNoAutoInc == "vschema does not contain auto increment"
ErrUnexpected == "unexpected vindex ddl operation"
ErrGetVSchema == "failed to get the current VSchema for the keyspace"

\* the error of the topology server that topo.IsErrType(err, topo.NoNode)
\* recognises
ErrNoNode == "node doesn't exist"

----------------------------------------------------------------------------
(* The branches of the switch; each yields the returned error and the      *)
(* snapshot as the branch leaves it.                                       *)

\* CreateVindexDDLAction without the setting of the sharded bit
CreateVindexNoSharded(k, alterVschema) ==
    LET name == alterVschema.VindexSpec.Name
        parsed == ParseParams(alterVschema.VindexSpec)
    IN  IF name \in DOMAIN k.Vindexes THEN Ret(ErrVindexExists, k)
        ELSE Ret(Nil,
                 [k EXCEPT
                    !.Vindexes = MapSet(@, name,
                                        [Type |-> alterVschema.VindexSpec.Type,
                                         Params |-> parsed.params,
                                         Owner |-> parsed.owner])])

\* CreateVindexDDLAction without the existence check: the definition is
\* replaced
CreateVindexReplaces(k, alterVschema) ==
    LET name == alterVschema.VindexSpec.Name
        parsed == ParseParams(alterVschema.VindexSpec)
    IN  Ret(Nil,
            [k EXCEPT
               !.Sharded = IF Cardinality(DOMAIN k.Vindexes) = 0 THEN TRUE ELSE @,
               !.Vindexes = MapSet(@, name,
                                   [Type |-> alterVschema.VindexSpec.Type,
                                    Params |-> parsed.params,
                                    Owner |-> parsed.owner])])

\* case sqlparser.CreateVindexDDLAction
CreateVindexDDLAction(k, alterVschema) ==
    LET name == alterVschema.VindexSpec.Name
        parsed == ParseParams(alterVschema.VindexSpec)
    IN  IF name \in DOMAIN k.Vindexes THEN Ret(ErrVindexExists, k)
        ELSE Ret(Nil,
                 [k EXCEPT
                    !.Sharded = IF Cardinality(DOMAIN k.Vindexes) = 0 THEN TRUE ELSE @,
                    !.Vindexes = MapSet(@, name,
                                        [Type |-> alterVschema.VindexSpec.Type,
                                         Params |-> parsed.params,
                                         Owner |-> parsed.owner])])

\* DropVindexDDLAction without the scan of the tables
DropVindexNoScan(k, alterVschema) ==
    LET name == alterVschema.VindexSpec.Name
    IN  IF name \notin DOMAIN k.Vindexes THEN Ret(ErrVindexNotExists, k)
        ELSE Ret(Nil, [k EXCEPT !.Vindexes = MapDelete(@, name)])

\* DropVindexDDLAction with a scan that looks at the first column vindex of
\* each table only
DropVindexFirstEntryOnly(k, alterVschema) ==
    LET name == alterVschema.VindexSpec.Name
    IN  IF name \notin DOMAIN k.Vindexes THEN Ret(ErrVindexNotExists, k)
        ELSE IF \E tableName \in DOMAIN k.Tables :
                    /\ Len(k.Tables[tableName].ColumnVindexes) > 0
                    /\ k.Tables[tableName].ColumnVindexes[1].Name = name
        THEN Ret(ErrStillDefined, k)
        ELSE Ret(Nil, [k EXCEPT !.Vindexes = MapDelete(@, name)])

\* DropVindexDDLAction clearing the sharded bit with the last vindex
DropVindexResetsSharded(k, alterVschema) ==
    LET name == alterVschema.VindexSpec.Name
    IN  IF name \notin DOMAIN k.Vindexes THEN Ret(ErrVindexNotExists, k)
        ELSE IF \E tableName \in DOMAIN k.Tables :
                    \E i \in 1..Len(k.Tables[tableName].ColumnVindexes) :
                        k.Tables[tableName].ColumnVindexes[i].Name = name
        THEN Ret(ErrStillDefined, k)
        ELSE Ret(Nil, [k EXCEPT
                         !.Vindexes = MapDelete(@, name),
                         !.Sharded = IF DOMAIN k.Vindexes = {name} THEN FALSE ELSE @])

\* case sqlparser.DropVindexDDLAction
DropVindexDDLAction(k, alterVschema) ==
    LET name == alterVschema.VindexSpec.Name
    IN  IF name \notin DOMAIN k.Vindexes THEN Ret(ErrVindexNotExists, k)
        ELSE IF \E tableName \in DOMAIN k.Tables :
                    \E i \in 1..Len(k.Tables[tableName].ColumnVindexes) :
                        k.Tables[tableName].ColumnVindexes[i].Name = name
        THEN Ret(ErrStillDefined, k)
        ELSE Ret(Nil, [k EXCEPT !.Vindexes = MapDelete(@, name)])

\* AddVschemaTableDDLAction with the two checks in the other order
AddVschemaTableExistsFirst(k, alterVschema) ==
    LET name == alterVschema.Table
    IN  IF name \in DOMAIN k.Tables THEN Ret(ErrTableExists, k)
        ELSE IF k.Sharded THEN Ret(ErrAddTableSharded, k)
        ELSE Ret(Nil,
                 [k EXCEPT !.Tables =
                    MapSet(@, name, NewTable(""))])

\* case sqlparser.AddVschemaTableDDLAction
AddVschemaTableDDLAction(k, alterVschema) ==
    LET name == alterVschema.Table
    IN  IF k.Sharded THEN Ret(ErrAddTableSharded, k)
        ELSE IF name \in DOMAIN k.Tables THEN Ret(ErrTableExists, k)
        ELSE Ret(Nil,
                 [k EXCEPT !.Tables =
                    MapSet(@, name, NewTable(""))])

\* case sqlparser.DropVschemaTableDDLAction
DropVschemaTableDDLAction(k, alterVschema) ==
    LET name == alterVschema.Table
    IN  IF name \notin DOMAIN k.Tables THEN Ret(ErrNoTable, k)
        ELSE Ret(Nil, [k EXCEPT !.Tables = MapDelete(@, name)])

\* AddColVindexDefinition creating the vindex without the sharded bit
AddColVindexDefinitionNoSharded(k, alterVschema) ==
    LET spec == alterVschema.VindexSpec
        name == spec.Name
        parsed == ParseParams(spec)
    IN  IF spec.Type # ""
        THEN IF name \in DOMAIN k.Vindexes
             THEN LET vindex == k.Vindexes[name]
                  IN  IF vindex.Type # spec.Type THEN Ret(ErrVindexType, k)
                      ELSE IF vindex.Owner # parsed.owner THEN Ret(ErrVindexOwner, k)
                      ELSE IF /\ (ParamsLen(vindex.Params) # 0 \/ ParamsLen(parsed.params) # 0)
                              /\ ~DeepEqual(vindex.Params, parsed.params)
                      THEN Ret(ErrVindexParams, k)
                      ELSE Ret(Nil, k)
             ELSE Ret(Nil,
                      [k EXCEPT
                         !.Vindexes = MapSet(@, name,
                                             [Type |-> spec.Type,
                                              Params |-> parsed.params,
                                              Owner |-> parsed.owner])])
        ELSE IF name \notin DOMAIN k.Vindexes THEN Ret(ErrVindexNotExist, k)
             ELSE Ret(Nil, k)

\* AddColVindexDefinition with the sharded bit set ahead of the checks
AddColVindexDefinitionShardedFirst(k, alterVschema) ==
    LET spec == alterVschema.VindexSpec
        name == spec.Name
        parsed == ParseParams(spec)
        k0 == [k EXCEPT !.Sharded = IF Cardinality(DOMAIN k.Vindexes) = 0 THEN TRUE ELSE @]
    IN  IF spec.Type # ""
        THEN IF name \in DOMAIN k.Vindexes
             THEN LET vindex == k.Vindexes[name]
                  IN  IF vindex.Type # spec.Type THEN Ret(ErrVindexType, k0)
                      ELSE IF vindex.Owner # parsed.owner THEN Ret(ErrVindexOwner, k0)
                      ELSE IF /\ (ParamsLen(vindex.Params) # 0 \/ ParamsLen(parsed.params) # 0)
                              /\ ~DeepEqual(vindex.Params, parsed.params)
                      THEN Ret(ErrVindexParams, k0)
                      ELSE Ret(Nil, k0)
             ELSE Ret(Nil,
                      [k0 EXCEPT
                         !.Vindexes = MapSet(@, name,
                                             [Type |-> spec.Type,
                                              Params |-> parsed.params,
                                              Owner |-> parsed.owner])])
        ELSE IF name \notin DOMAIN k.Vindexes THEN Ret(ErrVindexNotExist, k0)
             ELSE Ret(Nil, k0)

\* AddColVindexDefinition comparing the params with reflect.DeepEqual alone
AddColVindexDefinitionDeepEqualOnly(k, alterVschema) ==
    LET spec == alterVschema.VindexSpec
        name == spec.Name
        parsed == ParseParams(spec)
    IN  IF spec.Type # ""
        THEN IF name \in DOMAIN k.Vindexes
             THEN LET vindex == k.Vindexes[name]
                  IN  IF vindex.Type # spec.Type THEN Ret(ErrVindexType, k)
                      ELSE IF vindex.Owner # parsed.owner THEN Ret(ErrVindexOwner, k)
                      ELSE IF ~DeepEqual(vindex.Params, parsed.params)
                      THEN Ret(ErrVindexParams, k)
                      ELSE Ret(Nil, k)
             ELSE Ret(Nil,
                      [k EXCEPT
                         !.Sharded = IF Cardinality(DOMAIN k.Vindexes) = 0 THEN TRUE ELSE @,
                         !.Vindexes = MapSet(@, name,
                                             [Type |-> spec.Type,
                                              Params |-> parsed.params,
                                              Owner |-> parsed.owner])])
        ELSE IF name \notin DOMAIN k.Vindexes THEN Ret(ErrVindexNotExist, k)
             ELSE Ret(Nil, k)

\* the first half of case sqlparser.AddColVindexDDLAction: the vindex is
\* checked against its definition, or created, or required to exist
AddColVindexDefinition(k, alterVschema) ==
    LET spec == alterVschema.VindexSpec
        name == spec.Name
        parsed == ParseParams(spec)
    IN  IF spec.Type # ""
        THEN IF name \in DOMAIN k.Vindexes
             THEN LET vindex == k.Vindexes[name]
                  IN  IF vindex.Type # spec.Type THEN Ret(ErrVindexType, k)
                      ELSE IF vindex.Owner # parsed.owner THEN Ret(ErrVindexOwner, k)
                      ELSE IF /\ (ParamsLen(vindex.Params) # 0 \/ ParamsLen(parsed.params) # 0)
                              /\ ~DeepEqual(vindex.Params, parsed.params)
                      THEN Ret(ErrVindexParams, k)
                      ELSE Ret(Nil, k)
             ELSE Ret(Nil,
                      [k EXCEPT
                         !.Sharded = IF Cardinality(DOMAIN k.Vindexes) = 0 THEN TRUE ELSE @,
                         !.Vindexes = MapSet(@, name,
                                             [Type |-> spec.Type,
                                              Params |-> parsed.params,
                                              Owner |-> parsed.owner])])
        ELSE IF name \notin DOMAIN k.Vindexes THEN Ret(ErrVindexNotExist, k)
             ELSE Ret(Nil, k)

\* AddColVindexAttach without the loop over the table's column vindexes
AddColVindexAttachNoDupCheck(k1, alterVschema, tableName, tableFound, found) ==
    LET name == alterVschema.VindexSpec.Name
        table == IF tableFound THEN found ELSE NewTable("")
        columns == [i \in 1..Len(alterVschema.VindexCols) |-> alterVschema.VindexCols[i]]
    IN  Ret(Nil,
            [k1 EXCEPT !.Tables =
               MapSet(@, tableName,
                      [table EXCEPT !.ColumnVindexes =
                         Append(@, [Name |-> name, Columns |-> columns])])])

\* AddColVindexAttach with the result of append dropped
AddColVindexAttachNoAppend(k1, alterVschema, tableName, tableFound, found) ==
    LET name == alterVschema.VindexSpec.Name
        table == IF tableFound THEN found ELSE NewTable("")
    IN  IF \E i \in 1..Len(table.ColumnVindexes) : table.ColumnVindexes[i].Name = name
        THEN Ret(ErrAlreadyOnTable, k1)
        ELSE Ret(Nil, [k1 EXCEPT !.Tables = MapSet(@, tableName, table)])

\* the second half of case sqlparser.AddColVindexDDLAction, on the snapshot
\* k1 the first half left: table is the record found before the switch
\* (tableFound tells whether the pointer is non-nil)
AddColVindexAttach(k1, alterVschema, tableName, tableFound, found) ==
    LET name == alterVschema.VindexSpec.Name
        table == IF tableFound THEN found
                 ELSE NewTable("")
        columns == [i \in 1..Len(alterVschema.VindexCols) |-> alterVschema.VindexCols[i]]
    IN  IF \E i \in 1..Len(table.ColumnVindexes) : table.ColumnVindexes[i].Name = name
        THEN Ret(ErrAlreadyOnTable, k1)
        ELSE Ret(Nil,
                 [k1 EXCEPT !.Tables =
                    MapSet(@, tableName,
                           [table EXCEPT !.ColumnVindexes =
                              Append(@, [Name |-> name, Columns |-> columns])])])

\* var tableName, table: looked up before the switch when the statement
\* names a table
TableName(alterVschema) == alterVschema.Table

TableFound(k, alterVschema) ==
    alterVschema.Table # "" /\ alterVschema.Table \in DOMAIN k.Tables

\* case sqlparser.AddColVindexDDLAction
AddColVindexDDLAction(k, alterVschema) ==
    LET first == AddColVindexDefinition(k, alterVschema)
        tableName == TableName(alterVschema)
        tableFound == TableFound(k, alterVschema)
        found == IF tableFound THEN k.Tables[tableName]
                 ELSE NewTable("")
    IN  IF first.err # Nil THEN first
        ELSE AddColVindexAttach(first.ksvs, alterVschema, tableName, tableFound, found)

\* DropColVindexDDLAction without the delete of the emptied table
DropColVindexKeepsTable(k, alterVschema) ==
    LET name == alterVschema.VindexSpec.Name
        tableName == TableName(alterVschema)
    IN  IF ~TableFound(k, alterVschema) THEN Ret(ErrTableNotDefined, k)
        ELSE LET cvs == k.Tables[tableName].ColumnVindexes
                 i == FirstNamed(cvs, name)
             IN  IF i = 0 THEN Ret(ErrNotOnTable, k)
                 ELSE Ret(Nil, [k EXCEPT !.Tables[tableName].ColumnVindexes =
                                            RemoveAt(cvs, i)])

\* case sqlparser.DropColVindexDDLAction
DropColVindexDDLAction(k, alterVschema) ==
    LET name == alterVschema.VindexSpec.Name
        tableName == TableName(alterVschema)
    IN  IF ~TableFound(k, alterVschema) THEN Ret(ErrTableNotDefined, k)
        ELSE LET cvs == k.Tables[tableName].ColumnVindexes
                 i == FirstNamed(cvs, name)
             IN  IF i = 0 THEN Ret(ErrNotOnTable, k)
                 ELSE IF Len(RemoveAt(cvs, i)) = 0
                 THEN Ret(Nil, [k EXCEPT !.Tables = MapDelete(@, tableName)])
                 ELSE Ret(Nil, [k EXCEPT !.Tables[tableName].ColumnVindexes =
                                            RemoveAt(cvs, i)])

\* case sqlparser.AddSequenceDDLAction
AddSequenceDDLAction(k, alterVschema) ==
    LET name == alterVschema.Table
    IN  IF k.Sharded THEN Ret(ErrAddSeqSharded, k)
        ELSE IF name \in DOMAIN k.Tables THEN Ret(ErrSeqExists, k)
        ELSE Ret(Nil,
                 [k EXCEPT !.Tables =
                    MapSet(@, name, NewTable("sequence"))])

\* case sqlparser.DropSequenceDDLAction
DropSequenceDDLAction(k, alterVschema) ==
    LET name == alterVschema.Table
    IN  IF k.Sharded THEN Ret(ErrDropSeqSharded, k)
        ELSE IF name \notin DOMAIN k.Tables THEN Ret(ErrNoSeq, k)
        ELSE Ret(Nil, [k EXCEPT !.Tables = MapDelete(@, name)])

\* AddAutoIncDDLAction storing a new record in place of the table
AddAutoIncReplacesTable(k, alterVschema) ==
    LET name == alterVschema.Table
    IN  IF name \notin DOMAIN k.Tables THEN Ret(ErrNoTable, k)
        ELSE IF ~k.Tables[name].AutoIncrement.isNil THEN Ret(ErrAutoIncExists, k)
        ELSE Ret(Nil,
                 [k EXCEPT !.Tables =
                    MapSet(@, name,
                           [NewTable("") EXCEPT !.AutoIncrement =
                              [isNil |-> FALSE,
                               Column |-> alterVschema.AutoIncSpec.Column,
                               Sequence |-> alterVschema.AutoIncSpec.Sequence]])])

\* AddAutoIncDDLAction without the check for an AutoIncrement already set
AddAutoIncOverwrites(k, alterVschema) ==
    LET name == alterVschema.Table
    IN  IF name \notin DOMAIN k.Tables THEN Ret(ErrNoTable, k)
        ELSE Ret(Nil,
                 [k EXCEPT !.Tables[name].AutoIncrement =
                    [isNil |-> FALSE,
                     Column |-> alterVschema.AutoIncSpec.Column,
                     Sequence |-> alterVschema.AutoIncSpec.Sequence]])

\* case sqlparser.AddAutoIncDDLAction
AddAutoIncDDLAction(k, alterVschema) ==
    LET name == alterVschema.Table
    IN  IF name \notin DOMAIN k.Tables THEN Ret(ErrNoTable, k)
        ELSE IF ~k.Tables[name].AutoIncrement.isNil THEN Ret(ErrAutoIncExists, k)
        ELSE Ret(Nil,
                 [k EXCEPT !.Tables[name].AutoIncrement =
                    [isNil |-> FALSE,
                     Column |-> alterVschema.AutoIncSpec.Column,
                     Sequence |-> alterVschema.AutoIncSpec.Sequence]])

\* case sqlparser.DropAutoIncDDLAction
DropAutoIncDDLAction(k, alterVschema) ==
    LET name == alterVschema.Table
    IN  IF name \notin DOMAIN k.Tables THEN Ret(ErrNoTable, k)
        ELSE IF k.Tables[name].AutoIncrement.isNil THEN Ret(ErrNoAutoInc, k)
        ELSE Ret(Nil, [k EXCEPT !.Tables[name].AutoIncrement = NilAutoIncrement])

\* switch alterVschema.Action, with the return after it
Switch(k, alterVschema) ==
    CASE alterVschema.Action = "CreateVindex" -> CreateVindexDDLAction(k, alterVschema)
      [] alterVschema.Action = "DropVindex" -> DropVindexDDLAction(k, alterVschema)
      [] alterVschema.Action = "AddVschemaTable" -> AddVschemaTableDDLAction(k, alterVschema)
      [] alterVschema.Action = "DropVschemaTable" -> DropVschemaTableDDLAction(k, alterVschema)
      [] alterVschema.Action = "AddColVindex" -> AddColVindexDDLAction(k, alterVschema)
      [] alterVschema.Action = "DropColVindex" -> DropColVindexDDLAction(k, alterVschema)
      [] alterVschema.Action = "AddSequence" -> AddSequenceDDLAction(k, alterVschema)
      [] alterVschema.Action = "DropSequence" -> DropSequenceDDLAction(k, alterVschema)
      [] alterVschema.Action = "AddAutoInc" -> AddAutoIncDDLAction(k, alterVschema)
      [] alterVschema.Action = "DropAutoInc" -> DropAutoIncDDLAction(k, alterVschema)
      [] OTHER -> Ret(ErrUnexpected, k)

----------------------------------------------------------------------------
(* The topology server *)

\* what is kept for a keyspace that was never written
NoNode == [exists |-> FALSE, version |-> 0, ks |-> EmptyKeyspace]

\* the stored form of a vschema: an empty map field is not encoded, and
\* reads back as a nil map
Stored(k) ==
    [k EXCEPT !.Vindexes =
        [v \in DOMAIN k.Vindexes |->
            [k.Vindexes[v] EXCEPT !.Params =
                IF @.kv = {} THEN NilParams ELSE @]]]

\* ksvs, err := topoServer.GetVSchema(ctx, ksName), the NoNode case and the
\* making of the two maps: the snapshot the switch starts from
GetVSchema(node) == IF node.exists THEN node.ks ELSE EmptyKeyspace

\* topoServer.GetVSchema(ctx, ksName): the stored vschema, or the NoNode
\* error and no vschema
TopoGetVSchema(node) ==
    IF node.exists THEN Ret(Nil, node.ks) ELSE Ret(ErrNoNode, EmptyKeyspace)

\* the fetch with every error of GetVSchema returned to the caller
FetchNoNodeFails(node) ==
    LET got == TopoGetVSchema(node)
    IN  IF got.err # Nil THEN Ret(ErrGetVSchema, got.ksvs)
        ELSE Ret(Nil, got.ksvs)

\* the fetch with the empty vschema made whatever GetVSchema returned
FetchAlwaysEmpty(node) == Ret(Nil, EmptyKeyspace)

\* the start of ApplyVSchemaDDL: the most recent vschema is fetched, an
\* empty one is made on NoNode, any other error is returned
Fetch(node) ==
    LET got == TopoGetVSchema(node)
    IN  IF got.err # Nil
        THEN IF got.err = ErrNoNode THEN Ret(Nil, EmptyKeyspace)
             ELSE Ret(ErrGetVSchema, got.ksvs)
        ELSE Ret(Nil, got.ksvs)

\* ApplyVSchemaDDL on the topology server's record
ApplyVSchemaDDL(node, alterVschema) ==
    LET fetched == Fetch(node)
    IN  IF fetched.err # Nil THEN fetched
        ELSE Switch(fetched.ksvs, alterVschema)

\* the caller's write of a returned vschema
SaveVSchema(node, k) ==
    [exists |-> TRUE, version |-> node.version + 1, ks |-> Stored(k)]

----------------------------------------------------------------------------
(* Statements *)

\* the definition most statements give, and the definitions that differ from
\* it in one of type, owner and params
BaseType == "hash"
BaseOwner == ""
BaseParams == <<>>

VindexSpecs ==
    { spec \in [Name : VindexNames, Type : VindexTypes,
                Params : RawParamLists, Owner : Owners] :
        Cardinality({ f \in {"Type", "Owner", "Params"} :
                        \/ f = "Type" /\ spec.Type # BaseType
                        \/ f = "Owner" /\ spec.Owner # BaseOwner
                        \/ f = "Params" /\ spec.Params # BaseParams }) <= 1 }

\* a vindex named without a definition
BareSpecs ==
    [Name : VindexNames, Type : {""}, Params : {<<>>}, Owner : {""}]

----------------------------------------------------------------------------
(* One call, and what the caller does with its result *)

\* a caller calls ApplyVSchemaDDL and holds what it returned
Apply(alterVschema) ==
    /\ pc = "idle"
    /\ topo.version < MaxVersion
    /\ LET r == ApplyVSchemaDDL(topo, alterVschema)
       IN  /\ ddl' = alterVschema
           /\ err' = r.err
           /\ ksvs' = r.ksvs
    /\ pc' = "returned"
    /\ UNCHANGED <<topo, callers, serialized>>

CreateVindex ==
    \E spec \in VindexSpecs :
        Apply(Stmt("CreateVindex", "", spec, <<>>, NoAutoIncSpec))

DropVindex ==
    \E spec \in BareSpecs :
        Apply(Stmt("DropVindex", "", spec, <<>>, NoAutoIncSpec))

AddVschemaTable ==
    \E t \in TableNames :
        Apply(Stmt("AddVschemaTable", t, NoVindexSpec, <<>>, NoAutoIncSpec))

DropVschemaTable ==
    \E t \in TableNames :
        Apply(Stmt("DropVschemaTable", t, NoVindexSpec, <<>>, NoAutoIncSpec))

AddColVindex ==
    \E t \in TableNames, spec \in VindexSpecs \cup BareSpecs, cols \in ColumnLists :
        Apply(Stmt("AddColVindex", t, spec, cols, NoAutoIncSpec))

DropColVindex ==
    \E t \in TableNames, spec \in BareSpecs :
        Apply(Stmt("DropColVindex", t, spec, <<>>, NoAutoIncSpec))

AddSequence ==
    \E t \in TableNames :
        Apply(Stmt("AddSequence", t, NoVindexSpec, <<>>, NoAutoIncSpec))

DropSequence ==
    \E t \in TableNames :
        Apply(Stmt("DropSequence", t, NoVindexSpec, <<>>, NoAutoIncSpec))

AddAutoInc ==
    \E t \in TableNames, a \in AutoIncSpecs :
        Apply(Stmt("AddAutoInc", t, NoVindexSpec, <<>>, a))

DropAutoInc ==
    \E t \in TableNames :
        Apply(Stmt("DropAutoInc", t, NoVindexSpec, <<>>, NoAutoIncSpec))

Unexpected ==
    Apply(Stmt("Unexpected", "", NoVindexSpec, <<>>, NoAutoIncSpec))

\* the caller writes the returned vschema back
Save ==
    /\ pc = "returned"
    /\ err = Nil
    /\ topo' = SaveVSchema(topo, ksvs)
    /\ pc' = "idle"
    /\ ksvs' = EmptyKeyspace
    /\ ddl' = NoStmt
    /\ UNCHANGED <<err, callers, serialized>>

\* the caller got an error and no vschema: nothing is written
Discard ==
    /\ pc = "returned"
    /\ err # Nil
    /\ pc' = "idle"
    /\ ksvs' = EmptyKeyspace
    /\ err' = Nil
    /\ ddl' = NoStmt
    /\ UNCHANGED <<topo, callers, serialized>>

\* the two callers of the keyspace, before either has called
Callers == {"a", "b"}
IdleCallers ==
    [c \in Callers |-> [ksvs |-> EmptyKeyspace, err |-> Nil, ddl |-> NoStmt,
                        pc |-> "idle"]]

Init ==
    /\ topo = NoNode
    /\ ksvs = EmptyKeyspace
    /\ err = Nil
    /\ ddl = NoStmt
    /\ pc = "idle"
    /\ callers = IdleCallers
    /\ serialized = TRUE

Next ==
    \/ CreateVindex
    \/ DropVindex
    \/ AddVschemaTable
    \/ DropVschemaTable
    \/ AddColVindex
    \/ DropColVindex
    \/ AddSequence
    \/ DropSequence
    \/ AddAutoInc
    \/ DropAutoInc
    \/ Unexpected
    \/ Save
    \/ Discard

Spec == Init /\ [][Next]_vars

----------------------------------------------------------------------------
(* Properties *)

\* the snapshot the call in progress started from
Pre == GetVSchema(topo)

Returned(action) == pc = "returned" /\ ddl.Action = action

\* the vindex names the column vindexes of table t of k refer to
Referenced(k, t) ==
    { k.Tables[t].ColumnVindexes[i].Name : i \in 1..Len(k.Tables[t].ColumnVindexes) }

\* every column vindex of every table names a vindex of the keyspace
NoDangling(k) ==
    \A t \in DOMAIN k.Tables : Referenced(k, t) \subseteq DOMAIN k.Vindexes

\* some table of k has a column vindex named v
InUse(k, v) == \E t \in DOMAIN k.Tables : v \in Referenced(k, t)

InvalidOnSharded == {ErrAddTableSharded, ErrAddSeqSharded, ErrDropSeqSharded}
DefinitionConflict == {ErrVindexType, ErrVindexOwner, ErrVindexParams}

\* C1: referential integrity. The stored vschema, and every vschema a call
\* returns, has no column vindex naming a vindex that is not in Vindexes.
C1_ReferentialIntegrity ==
    /\ NoDangling(Pre)
    /\ (pc = "returned" /\ err = Nil) => NoDangling(ksvs)

\* a vindex was dropped while a table still has column vindexes
C1_Witness ==
    /\ Returned("DropVindex")
    /\ err = Nil
    /\ \E t \in DOMAIN ksvs.Tables : Referenced(ksvs, t) # {}

\* C2: DropVindex(V) with V present fails with "still defined on table" and
\* leaves the snapshot alone when a table's column vindexes name V, and
\* otherwise succeeds and removes V and nothing else; so it succeeds once
\* every referencing column vindex is gone.
C2_DropVindex ==
    (Returned("DropVindex") /\ ddl.VindexSpec.Name \in DOMAIN Pre.Vindexes) =>
        IF InUse(Pre, ddl.VindexSpec.Name)
        THEN err = ErrStillDefined /\ ksvs = Pre
        ELSE /\ err = Nil
             /\ ksvs = [Pre EXCEPT !.Vindexes = MapDelete(@, ddl.VindexSpec.Name)]
             /\ DOMAIN ksvs.Vindexes = (DOMAIN Pre.Vindexes) \ {ddl.VindexSpec.Name}

\* the vindex was made together with its only column vindex, the column
\* vindex was removed, and the drop then succeeded
C2_Witness ==
    /\ Returned("DropVindex")
    /\ err = Nil
    /\ topo.version = 2
    /\ DOMAIN Pre.Tables = {}
    /\ DOMAIN Pre.Vindexes = {ddl.VindexSpec.Name}

\* C3: no action is partially applied. When a call returns an error, the
\* snapshot is as it was fetched.
C3_NoPartialApply ==
    (pc = "returned" /\ err # Nil) => ksvs = Pre

\* an AddColVindex that gave a vindex type failed
C3_Witness ==
    /\ Returned("AddColVindex")
    /\ ddl.VindexSpec.Type # ""
    /\ err = ErrAlreadyOnTable

\* C4: DropTable on a sharded keyspace is rejected as invalid on a sharded
\* keyspace and removes nothing, whether or not the table exists.
C4_DropTableSharded ==
    (Returned("DropVschemaTable") /\ Pre.Sharded) =>
        /\ err \in InvalidOnSharded
        /\ ksvs.Tables = Pre.Tables

\* C5: AddTable, AddSequence and DropSequence fail on a sharded keyspace
\* with the unsupported-on-sharded error, whether or not the table exists,
\* and leave the tables alone; on an unsharded keyspace AddTable and
\* AddSequence fail with "already contains" exactly when the name is a table
\* and DropSequence fails with "does not contain" exactly when it is not.
C5_ShardedCheckFirst ==
    /\ Returned("AddVschemaTable") =>
          IF Pre.Sharded THEN err = ErrAddTableSharded /\ ksvs.Tables = Pre.Tables
          ELSE /\ (err = ErrTableExists) <=> (ddl.Table \in DOMAIN Pre.Tables)
               /\ (err = Nil) <=> (ddl.Table \notin DOMAIN Pre.Tables)
    /\ Returned("AddSequence") =>
          IF Pre.Sharded THEN err = ErrAddSeqSharded /\ ksvs.Tables = Pre.Tables
          ELSE /\ (err = ErrSeqExists) <=> (ddl.Table \in DOMAIN Pre.Tables)
               /\ (err = Nil) <=> (ddl.Table \notin DOMAIN Pre.Tables)
    /\ Returned("DropSequence") =>
          IF Pre.Sharded THEN err = ErrDropSeqSharded /\ ksvs.Tables = Pre.Tables
          ELSE /\ (err = ErrNoSeq) <=> (ddl.Table \notin DOMAIN Pre.Tables)
               /\ (err = Nil) <=> (ddl.Table \in DOMAIN Pre.Tables)

\* AddTable of a table that exists, on a sharded keyspace
C5_Witness ==
    /\ Returned("AddVschemaTable")
    /\ Pre.Sharded
    /\ ddl.Table \in DOMAIN Pre.Tables
    /\ err = ErrAddTableSharded

\* C6: the sharded bit is monotone. No call on a sharded snapshot leaves it
\* unsharded, and no step takes the stored vschema from sharded to unsharded.
C6_ShardedMonotone ==
    [][ Pre.Sharded => /\ GetVSchema(topo').Sharded
                       /\ (pc' = "returned" => ksvs'.Sharded) ]_vars

\* the last vindex was dropped
C6_Witness ==
    /\ Returned("DropVindex")
    /\ err = Nil
    /\ DOMAIN ksvs.Vindexes = {}
    /\ ksvs.Sharded

\* a successful call that created the vindex it names
CreatedVindex ==
    /\ pc = "returned"
    /\ err = Nil
    /\ \/ ddl.Action = "CreateVindex"
       \/ ddl.Action = "AddColVindex" /\ ddl.VindexSpec.Type # ""
    /\ ddl.VindexSpec.Name \notin DOMAIN Pre.Vindexes

\* C7: a successful creation of a vindex, by CreateVindex or by AddColVindex
\* with a type, sets the sharded bit when the keyspace had no vindex and
\* leaves it as it was otherwise.
C7_FirstVindexShards ==
    CreatedVindex =>
        /\ ddl.VindexSpec.Name \in DOMAIN ksvs.Vindexes
        /\ IF DOMAIN Pre.Vindexes = {} THEN ksvs.Sharded
           ELSE ksvs.Sharded = Pre.Sharded

\* the first vindex of an unsharded keyspace was created by AddColVindex
C7_Witness ==
    /\ CreatedVindex
    /\ ddl.Action = "AddColVindex"
    /\ DOMAIN Pre.Vindexes = {}
    /\ ~Pre.Sharded
    /\ ksvs.Sharded

\* C8: CreateVindex of an absent name inserts the vindex with the type,
\* params and owner given and leaves the tables alone; CreateVindex of a
\* present name, with whatever definition, fails with "already exists" and
\* leaves the snapshot, and so the first definition, as it was.
C8_CreateVindexTwice ==
    Returned("CreateVindex") =>
        IF ddl.VindexSpec.Name \notin DOMAIN Pre.Vindexes
        THEN /\ err = Nil
             /\ DOMAIN ksvs.Vindexes = (DOMAIN Pre.Vindexes) \cup {ddl.VindexSpec.Name}
             /\ ksvs.Vindexes[ddl.VindexSpec.Name].Type = ddl.VindexSpec.Type
             /\ ksvs.Vindexes[ddl.VindexSpec.Name].Owner = ddl.VindexSpec.Owner
             /\ ksvs.Vindexes[ddl.VindexSpec.Name].Params.kv = ParamsOf(ddl.VindexSpec.Params)
             /\ ksvs.Tables = Pre.Tables
        ELSE /\ err = ErrVindexExists
             /\ ksvs = Pre

\* a second CreateVindex of the name, with another type
C8_Witness ==
    /\ Returned("CreateVindex")
    /\ err = ErrVindexExists
    /\ ddl.VindexSpec.Name \in DOMAIN Pre.Vindexes
    /\ Pre.Vindexes[ddl.VindexSpec.Name].Type # ddl.VindexSpec.Type

\* C9: a DropColVindex that removes the only column vindex of a table
\* removes the table in the same call; a name that is not a table becomes one
\* only by a successful AddTable, AddSequence or AddColVindex of that name,
\* and the caller's step stores the tables the call returned.
C9_LastColVindexDropsTable ==
    [][ /\ (pc' = "returned" /\ ddl'.Action = "DropColVindex" /\ err' = Nil
              /\ Len(Pre.Tables[ddl'.Table].ColumnVindexes) = 1)
            => ddl'.Table \notin DOMAIN ksvs'.Tables
        /\ pc' = "returned" =>
              \A t \in (DOMAIN ksvs'.Tables) \ (DOMAIN Pre.Tables) :
                  /\ err' = Nil
                  /\ ddl'.Action \in {"AddVschemaTable", "AddSequence", "AddColVindex"}
                  /\ ddl'.Table = t
        /\ pc = "returned" =>
              DOMAIN GetVSchema(topo').Tables =
                  IF err = Nil THEN DOMAIN ksvs.Tables ELSE DOMAIN Pre.Tables ]_vars

\* the only column vindex of a table was removed, and the table with it
C9_Witness ==
    /\ Returned("DropColVindex")
    /\ err = Nil
    /\ Len(Pre.Tables[ddl.Table].ColumnVindexes) = 1
    /\ ddl.Table \notin DOMAIN ksvs.Tables

\* the definition an AddColVindex gives is the recorded one: same type, same
\* owner, same params as key/value mappings
SameDefinition(vindex, spec) ==
    /\ vindex.Type = spec.Type
    /\ vindex.Owner = spec.Owner
    /\ vindex.Params.kv = ParamsOf(spec.Params)

\* C10: AddColVindex with a type, for a vindex that exists, passes the
\* definition check exactly when type, owner and params (as mappings, an
\* absent one equal to an empty one) are the recorded ones; on a mismatch it
\* fails with a definition error and the snapshot is as fetched, on a match
\* the vindexes are as fetched.
C10_DefinitionCheck ==
    (/\ Returned("AddColVindex")
     /\ ddl.VindexSpec.Type # ""
     /\ ddl.VindexSpec.Name \in DOMAIN Pre.Vindexes) =>
        IF SameDefinition(Pre.Vindexes[ddl.VindexSpec.Name], ddl.VindexSpec)
        THEN err \notin DefinitionConflict /\ ksvs.Vindexes = Pre.Vindexes
        ELSE err \in DefinitionConflict /\ ksvs = Pre

\* the recorded params are absent, the given ones empty, and the call succeeded
C10_Witness ==
    /\ Returned("AddColVindex")
    /\ ddl.VindexSpec.Type # ""
    /\ ddl.VindexSpec.Name \in DOMAIN Pre.Vindexes
    /\ Pre.Vindexes[ddl.VindexSpec.Name].Params.isNil
    /\ ParamsOf(ddl.VindexSpec.Params) = {}
    /\ err = Nil

\* the column vindexes of table t of k, none when t is not a table
ColumnVindexesOf(k, t) ==
    IF t \in DOMAIN k.Tables THEN k.Tables[t].ColumnVindexes ELSE <<>>

\* t is a table of k without column vindexes
EmptyRecord(k, t) == t \in DOMAIN k.Tables /\ k.Tables[t].ColumnVindexes = <<>>

\* C11: a table record without column vindexes comes from AddTable or
\* AddSequence and has had none attached since. A successful AddColVindex
\* leaves its table with an entry, a successful DropColVindex leaves its
\* table absent or with an entry, a record without entries after a call was
\* without entries before it or was made by AddTable or AddSequence in that
\* call, and the caller's step stores the records as the call returned them.
C11_EmptyRecords ==
    [][ /\ pc' = "returned" =>
            /\ (ddl'.Action = "AddColVindex" /\ err' = Nil)
                  => ColumnVindexesOf(ksvs', ddl'.Table) # <<>>
            /\ (ddl'.Action = "DropColVindex" /\ err' = Nil)
                  => ~EmptyRecord(ksvs', ddl'.Table)
            /\ \A t \in DOMAIN ksvs'.Tables :
                  EmptyRecord(ksvs', t) =>
                     \/ EmptyRecord(Pre, t)
                     \/ /\ err' = Nil
                        /\ ddl'.Action \in {"AddVschemaTable", "AddSequence"}
                        /\ ddl'.Table = t
        /\ pc = "returned" =>
              \A t \in DOMAIN GetVSchema(topo').Tables :
                  EmptyRecord(GetVSchema(topo'), t) =>
                     EmptyRecord(IF err = Nil THEN ksvs ELSE Pre, t) ]_vars

\* a DropColVindex removed a table's last column vindex while another table,
\* made by AddTable or AddSequence, is still without any
C11_Witness ==
    /\ Returned("DropColVindex")
    /\ err = Nil
    /\ ddl.Table \notin DOMAIN ksvs.Tables
    /\ \E t \in DOMAIN ksvs.Tables : EmptyRecord(ksvs, t)

\* C12: DropColVindex keeps a table that has other content. A table with an
\* AutoIncrement, or of type "sequence", is still a table, with no column
\* vindexes and its AutoIncrement and type as they were, after its last
\* column vindex is removed.
C12_KeepsTableWithContent ==
    (/\ Returned("DropColVindex")
     /\ err = Nil
     /\ Len(ColumnVindexesOf(Pre, ddl.Table)) = 1
     /\ \/ ~Pre.Tables[ddl.Table].AutoIncrement.isNil
        \/ Pre.Tables[ddl.Table].Type = "sequence") =>
        /\ ddl.Table \in DOMAIN ksvs.Tables
        /\ ksvs.Tables[ddl.Table] =
              [Pre.Tables[ddl.Table] EXCEPT !.ColumnVindexes = <<>>]

\* C13: AddAutoInc succeeds exactly on a table without an AutoIncrement and
\* sets the column and sequence given; on a name that is no table it fails
\* with "does not contain table" and makes no table, on a table that has one
\* it fails with "already contains auto inc" and the snapshot is as fetched.
\* DropAutoInc succeeds exactly on a table with an AutoIncrement and clears it.
C13_AutoIncrement ==
    /\ Returned("AddAutoInc") =>
          IF ddl.Table \notin DOMAIN Pre.Tables
          THEN err = ErrNoTable /\ ksvs = Pre
          ELSE IF ~Pre.Tables[ddl.Table].AutoIncrement.isNil
          THEN err = ErrAutoIncExists /\ ksvs = Pre
          ELSE /\ err = Nil
               /\ ksvs.Tables[ddl.Table].AutoIncrement =
                     [isNil |-> FALSE,
                      Column |-> ddl.AutoIncSpec.Column,
                      Sequence |-> ddl.AutoIncSpec.Sequence]
    /\ Returned("DropAutoInc") =>
          IF ddl.Table \notin DOMAIN Pre.Tables
          THEN err = ErrNoTable /\ ksvs = Pre
          ELSE IF Pre.Tables[ddl.Table].AutoIncrement.isNil
          THEN err = ErrNoAutoInc /\ ksvs = Pre
          ELSE /\ err = Nil
               /\ ksvs.Tables[ddl.Table].AutoIncrement.isNil

\* an AddAutoInc with another column and sequence on a table that has one
C13_Witness ==
    /\ Returned("AddAutoInc")
    /\ err = ErrAutoIncExists
    /\ Pre.Tables[ddl.Table].AutoIncrement.Column # ddl.AutoIncSpec.Column

\* the tables of k and of j other than t are the same
OtherTablesSame(k, j, t) ==
    /\ (DOMAIN k.Tables) \ {t} = (DOMAIN j.Tables) \ {t}
    /\ \A u \in (DOMAIN k.Tables) \ {t} : k.Tables[u] = j.Tables[u]

\* the vindexes of k and of j other than v are the same
OtherVindexesSame(k, j, v) ==
    /\ (DOMAIN k.Vindexes) \ {v} = (DOMAIN j.Vindexes) \ {v}
    /\ \A w \in (DOMAIN k.Vindexes) \ {v} : k.Vindexes[w] = j.Vindexes[w]

\* C18: a successful action changes its target only. The table actions and
\* DropColVindex leave the vindexes, the sharded bit and the other tables as
\* fetched; CreateVindex and DropVindex leave the tables and the other
\* vindexes; AddColVindex leaves the other tables and every vindex that
\* existed; AddAutoInc and DropAutoInc leave the type and the column vindexes
\* of their table.
C18_Frame ==
    (pc = "returned" /\ err = Nil) =>
        /\ ddl.Action \in {"AddVschemaTable", "DropVschemaTable", "AddSequence",
                           "DropSequence", "AddAutoInc", "DropAutoInc",
                           "DropColVindex"} =>
              /\ ksvs.Vindexes = Pre.Vindexes
              /\ ksvs.Sharded = Pre.Sharded
              /\ OtherTablesSame(Pre, ksvs, ddl.Table)
        /\ ddl.Action \in {"CreateVindex", "DropVindex"} =>
              /\ ksvs.Tables = Pre.Tables
              /\ OtherVindexesSame(Pre, ksvs, ddl.VindexSpec.Name)
        /\ ddl.Action = "AddColVindex" =>
              /\ OtherTablesSame(Pre, ksvs, ddl.Table)
              /\ \A w \in DOMAIN Pre.Vindexes :
                    w \in DOMAIN ksvs.Vindexes /\ ksvs.Vindexes[w] = Pre.Vindexes[w]
        /\ ddl.Action \in {"AddAutoInc", "DropAutoInc"} =>
              /\ ksvs.Tables[ddl.Table].Type = Pre.Tables[ddl.Table].Type
              /\ ksvs.Tables[ddl.Table].ColumnVindexes =
                    Pre.Tables[ddl.Table].ColumnVindexes

\* an AutoIncrement was set on a table that has column vindexes, next to
\* another table
C18_Witness ==
    /\ Returned("AddAutoInc")
    /\ err = Nil
    /\ ColumnVindexesOf(Pre, ddl.Table) # <<>>
    /\ (DOMAIN Pre.Tables) \ {ddl.Table} # {}

\* a keyspace with a vindex, or with a column vindex on a table, is sharded
ShardedIfVindexes(k) ==
    (\/ DOMAIN k.Vindexes # {}
     \/ \E t \in DOMAIN k.Tables : k.Tables[t].ColumnVindexes # <<>>) => k.Sharded

\* C19: in the stored vschema and in every vschema a call returns, vindexes
\* or column vindexes imply the sharded bit: an unsharded keyspace has no
\* vindex and only tables without column vindexes.
C19_VindexesImplySharded ==
    /\ ShardedIfVindexes(Pre)
    /\ (pc = "returned" /\ err = Nil) => ShardedIfVindexes(ksvs)

\* the first vindex of a keyspace that already had tables was created
C19_Witness ==
    /\ Returned("CreateVindex")
    /\ err = Nil
    /\ DOMAIN Pre.Tables # {}
    /\ ~Pre.Sharded
    /\ ksvs.Sharded

\* no two column vindexes of a table of k have the same name
NoDuplicates(k) ==
    \A t \in DOMAIN k.Tables :
        \A i, j \in 1..Len(k.Tables[t].ColumnVindexes) :
            k.Tables[t].ColumnVindexes[i].Name = k.Tables[t].ColumnVindexes[j].Name
                => i = j

\* table t of k has a column vindex named v
HasEntry(k, t, v) == v \in { ColumnVindexesOf(k, t)[i].Name : i \in 1..Len(ColumnVindexesOf(k, t)) }

\* C20 as stated: no table has two column vindexes of one name, and
\* AddColVindex(t, V) fails with "already defined on table" whenever t has
\* an entry named V and attaches V only when it has none.
C20_AlwaysAlreadyDefined ==
    /\ NoDuplicates(Pre)
    /\ Returned("AddColVindex") =>
          IF HasEntry(Pre, ddl.Table, ddl.VindexSpec.Name)
          THEN err = ErrAlreadyOnTable
          ELSE err = Nil => HasEntry(ksvs, ddl.Table, ddl.VindexSpec.Name)

\* C20 amended: no table has two column vindexes of one name. When t has an
\* entry named V, AddColVindex(t, V) fails and the snapshot is as fetched:
\* with a definition error when a type is given and the definition differs
\* from the recorded one, with "already defined on table" otherwise,
\* whatever the columns. It attaches V only when t has no such entry.
C20_NoDuplicateNames ==
    /\ NoDuplicates(Pre)
    /\ (pc = "returned" /\ err = Nil) => NoDuplicates(ksvs)
    /\ Returned("AddColVindex") =>
          IF HasEntry(Pre, ddl.Table, ddl.VindexSpec.Name)
          THEN /\ ksvs = Pre
               /\ IF /\ ddl.VindexSpec.Type # ""
                     /\ ~SameDefinition(Pre.Vindexes[ddl.VindexSpec.Name], ddl.VindexSpec)
                  THEN err \in DefinitionConflict
                  ELSE err = ErrAlreadyOnTable
          ELSE err = Nil => HasEntry(ksvs, ddl.Table, ddl.VindexSpec.Name)

\* the vindex is on the table with other columns than the ones given
C20_Witness ==
    /\ Returned("AddColVindex")
    /\ err = ErrAlreadyOnTable
    /\ \E i \in 1..Len(ColumnVindexesOf(Pre, ddl.Table)) :
          /\ Pre.Tables[ddl.Table].ColumnVindexes[i].Name = ddl.VindexSpec.Name
          /\ Pre.Tables[ddl.Table].ColumnVindexes[i].Columns # ddl.VindexCols

\* a record of the topology server that holds the empty vschema
StoredEmpty == [exists |-> TRUE, version |-> 0, ks |-> EmptyKeyspace]

\* C14: first write and update share one path. A call that finds no vschema
\* for the keyspace returns what the call returns on a stored empty vschema
\* (unsharded, no tables, no vindexes), and never the NoNode error or the
\* failed-to-get error; a call on a stored empty vschema returns what the
\* call returns when there is none.
C14_NoNodeIsEmpty ==
    /\ (pc = "returned" /\ ~topo.exists) =>
          /\ err \notin {ErrNoNode, ErrGetVSchema}
          /\ Ret(err, ksvs) = ApplyVSchemaDDL(StoredEmpty, ddl)
    /\ (pc = "returned" /\ topo.exists /\ topo.ks = EmptyKeyspace) =>
          Ret(err, ksvs) = ApplyVSchemaDDL(NoNode, ddl)

\* the first vschema of the keyspace was made by a call that found none
C14_Witness ==
    /\ Returned("AddSequence")
    /\ ~topo.exists
    /\ err = Nil
    /\ DOMAIN ksvs.Tables = {ddl.Table}

----------------------------------------------------------------------------
(* Calls on snapshots the data model allows *)

\* table t1 with one column vindex, named v1
OneColumnVindex ==
    [t \in {"t1"} |->
        [NewTable("") EXCEPT
            !.ColumnVindexes = << [Name |-> "v1", Columns |-> <<"c1">>] >>]]

\* stored vschemas in which t1 has a column vindex named v1: without any
\* vindex, with vindex v2 only, and with vindex v1
InputSnapshots ==
    { [Sharded |-> FALSE, Tables |-> OneColumnVindex, Vindexes |-> [v \in {} |-> 0]],
      [Sharded |-> TRUE, Tables |-> OneColumnVindex,
       Vindexes |-> [v \in {"v2"} |->
                        [Type |-> BaseType, Params |-> NilParams, Owner |-> BaseOwner]]],
      [Sharded |-> TRUE, Tables |-> OneColumnVindex,
       Vindexes |-> [v \in {"v1"} |->
                        [Type |-> BaseType, Params |-> NilParams, Owner |-> BaseOwner]]] }

\* the topology server holds one of the snapshots; two more results may be
\* written back
SnapshotInit ==
    /\ topo \in { [exists |-> TRUE, version |-> MaxVersion - 2, ks |-> k] :
                    k \in InputSnapshots }
    /\ ksvs = EmptyKeyspace
    /\ err = Nil
    /\ ddl = NoStmt
    /\ pc = "idle"
    /\ callers = IdleCallers
    /\ serialized = TRUE

SnapshotSpec == SnapshotInit /\ [][Next]_vars

\* C16: on any snapshot, also one where t has a column vindex named V and V
\* is no vindex, an AddColVindex(t, V) with a type that fails with "already
\* defined on table" has not inserted V and has not changed the sharded bit.
C16_CheckBeforeMutation ==
    (/\ Returned("AddColVindex")
     /\ ddl.VindexSpec.Type # ""
     /\ err = ErrAlreadyOnTable) =>
        /\ ksvs.Vindexes = Pre.Vindexes
        /\ ksvs.Sharded = Pre.Sharded

----------------------------------------------------------------------------
(* Column vindexes of one table, over three vindexes *)

ListVindexNames == {"v1", "v2", "v3"}

ListAddColVindex ==
    \E v \in ListVindexNames, cols \in ColumnLists :
        Apply(Stmt("AddColVindex", "t1",
                   [Name |-> v, Type |-> BaseType, Params |-> BaseParams,
                    Owner |-> BaseOwner],
                   cols, NoAutoIncSpec))

ListDropColVindex ==
    \E v \in ListVindexNames :
        Apply(Stmt("DropColVindex", "t1",
                   [Name |-> v, Type |-> "", Params |-> <<>>, Owner |-> ""],
                   <<>>, NoAutoIncSpec))

ListNext ==
    \/ ListAddColVindex
    \/ ListDropColVindex
    \/ Save
    \/ Discard

ListSpec == Init /\ [][ListNext]_vars

\* C17: the column vindexes of a table are in declaration order. A
\* successful AddColVindex puts the entry (name, columns as given) at the end
\* and leaves the earlier entries; a successful DropColVindex takes out the
\* first entry of the name and leaves the others, in their order.
C17_DeclarationOrder ==
    /\ (Returned("AddColVindex") /\ err = Nil) =>
          ColumnVindexesOf(ksvs, ddl.Table) =
              Append(ColumnVindexesOf(Pre, ddl.Table),
                     [Name |-> ddl.VindexSpec.Name, Columns |-> ddl.VindexCols])
    /\ (Returned("DropColVindex") /\ err = Nil) =>
          LET old == ColumnVindexesOf(Pre, ddl.Table)
              new == ColumnVindexesOf(ksvs, ddl.Table)
          IN  \E i \in 1..Len(old) :
                  /\ old[i].Name = ddl.VindexSpec.Name
                  /\ \A j \in 1..(i - 1) : old[j].Name # ddl.VindexSpec.Name
                  /\ new = [j \in 1..(Len(old) - 1) |->
                               IF j < i THEN old[j] ELSE old[j + 1]]

\* the first of three column vindexes was removed
C17_Witness ==
    /\ Returned("DropColVindex")
    /\ err = Nil
    /\ Len(ColumnVindexesOf(Pre, ddl.Table)) = 3
    /\ Pre.Tables[ddl.Table].ColumnVindexes[1].Name = ddl.VindexSpec.Name
    /\ Len(ColumnVindexesOf(ksvs, ddl.Table)) = 2

----------------------------------------------------------------------------
(* Two callers of one keyspace *)

\* the statements the two callers give: each adds something to the vschema
ConcStmts ==
    { Stmt("CreateVindex", "",
           [Name |-> v, Type |-> BaseType, Params |-> BaseParams,
            Owner |-> BaseOwner],
           <<>>, NoAutoIncSpec) : v \in VindexNames }
    \cup { Stmt("AddVschemaTable", t, NoVindexSpec, <<>>, NoAutoIncSpec) :
             t \in TableNames }
    \cup { Stmt("AddSequence", t, NoVindexSpec, <<>>, NoAutoIncSpec) :
             t \in TableNames }
    \cup { Stmt("AddColVindex", t,
                [Name |-> v, Type |-> BaseType, Params |-> BaseParams,
                 Owner |-> BaseOwner],
                <<"c1">>, NoAutoIncSpec) : t \in TableNames, v \in VindexNames }

\* what a successful statement of ConcStmts leaves in a vschema
Effect(k, alterVschema) ==
    CASE alterVschema.Action = "CreateVindex" ->
            /\ alterVschema.VindexSpec.Name \in DOMAIN k.Vindexes
            /\ k.Sharded
      [] alterVschema.Action = "AddVschemaTable" ->
            alterVschema.Table \in DOMAIN k.Tables
      [] alterVschema.Action = "AddSequence" ->
            /\ alterVschema.Table \in DOMAIN k.Tables
            /\ k.Tables[alterVschema.Table].Type = "sequence"
      [] alterVschema.Action = "AddColVindex" ->
            /\ HasEntry(k, alterVschema.Table, alterVschema.VindexSpec.Name)
            /\ alterVschema.VindexSpec.Name \in DOMAIN k.Vindexes
      [] OTHER -> TRUE

\* caller c calls ApplyVSchemaDDL and holds what it returned; callers that
\* serialize do not call while the other holds a result it has not dealt with
ConcApply(c) ==
    /\ callers[c].pc = "idle"
    /\ serialized => \A d \in Callers \ {c} : callers[d].pc # "returned"
    /\ \E alterVschema \in ConcStmts :
          LET r == ApplyVSchemaDDL(topo, alterVschema)
          IN  callers' = [callers EXCEPT ![c] =
                             [ksvs |-> r.ksvs, err |-> r.err,
                              ddl |-> alterVschema, pc |-> "returned"]]
    /\ UNCHANGED <<topo, ksvs, err, ddl, pc, serialized>>

\* caller c writes the returned vschema back
ConcSave(c) ==
    /\ callers[c].pc = "returned"
    /\ callers[c].err = Nil
    /\ topo' = SaveVSchema(topo, callers[c].ksvs)
    /\ callers' = [callers EXCEPT ![c].pc = "saved"]
    /\ UNCHANGED <<ksvs, err, ddl, pc, serialized>>

\* caller c got an error and writes nothing
ConcDiscard(c) ==
    /\ callers[c].pc = "returned"
    /\ callers[c].err # Nil
    /\ callers' = [callers EXCEPT ![c].pc = "failed"]
    /\ UNCHANGED <<topo, ksvs, err, ddl, pc, serialized>>

ConcInit ==
    /\ topo = NoNode
    /\ ksvs = EmptyKeyspace
    /\ err = Nil
    /\ ddl = NoStmt
    /\ pc = "idle"
    /\ callers = IdleCallers
    /\ serialized \in BOOLEAN

ConcNext ==
    \E c \in Callers :
        \/ ConcApply(c)
        \/ ConcSave(c)
        \/ ConcDiscard(c)

ConcSpec == ConcInit /\ [][ConcNext]_vars

\* both callers applied a statement successfully and wrote the result back,
\* and the stored vschema lacks what one of the two statements adds
LostUpdate ==
    /\ \A c \in Callers : callers[c].pc = "saved"
    /\ \E c \in Callers : ~Effect(GetVSchema(topo), callers[c].ddl)

\* C15: when every read-apply-write sequence completes before the next one
\* starts, the stored vschema never lacks the effect of one of two successful
\* statements that were both written back.
C15_SerializedKeepsBoth == serialized => ~LostUpdate

\* the two sequences interleaved, and one update is lost
C15_Witness == ~serialized /\ LostUpdate

====
